---- MODULE Spec2Model ----
(***************************************************************************)
(* A model of scripts/fetch_videos.py: the fetch-resolve-filter-aggregate  *)
(* pipeline that collects the long-form videos of the configured YouTube   *)
(* channels into one snapshot file.                                        *)
(*                                                                         *)
(* Strings the code inspects character by character (lines of              *)
(* channels.txt, channel identifiers, ISO-8601 duration tokens) are        *)
(* sequences of one-character strings.  The remote API is the environment: *)
(* every call of yt() is one step whose response is chosen                 *)
(* nondeterministically among an HTTP/transport failure (an exception) and *)
(* the response bodies of a small enumerated set.                          *)
(***************************************************************************)
EXTENDS Integers, Sequences, FiniteSets, TLC

VARIABLES
    pc,             \* position of the process
    apiKeySet,      \* environment: YOUTUBE_API_KEY is set and non-empty
    fileExists,     \* environment: channels.txt exists
    fileLines,      \* environment: the lines of channels.txt
    identifiers,    \* main: identifiers
    idx,            \* main: position of the for loop in identifiers (1-based)
    channels_data,  \* main: channels_data
    channel,        \* main: channel (the resolved ChannelRecord, or None)
    video_ids,      \* get_durations: video_ids (the ids of the fetched uploads)
    i,              \* get_durations: loop variable i
    durations,      \* get_durations: durations (id -> seconds)
    videos,         \* fetch_videos: videos
    outFile,        \* data/videos.json: its content
    writes,         \* number of times data/videos.json has been opened for writing
    exitCode,       \* exit status of the process, once it has ended
    requests,       \* every request sent through yt() so far, in order
    outcome,        \* per processed identifier: what became of it
    rawDuration,    \* id -> the duration token the lookup returned for it
    fullAnswers,    \* every lookup of this get_durations call answered every id
    iso,            \* parse_duration: its argument
    seconds         \* parse_duration: its return value

vars == <<pc, apiKeySet, fileExists, fileLines, identifiers, idx, channels_data,
          channel, video_ids, i, durations, videos, outFile, writes, exitCode,
          requests, outcome, rawDuration, fullAnswers, iso, seconds>>

(***************************************************************************)
(* Bounds of the model.                                                    *)
(***************************************************************************)
MaxLines == 2       \* lines of channels.txt
MaxLineLen == 2     \* characters of a line (line terminator not counted)
MaxIdentLen == 3    \* characters of an identifier handed to resolve_channel
MaxVideos == 2      \* uploads a playlistItems response lists
MaxIds == 120       \* ids handed to get_durations on its own
MaxTokenLen == 4    \* characters of an arbitrary duration token
MaxDigits == 2      \* digits of the H, M and S fields of a well-formed token

(***************************************************************************)
(* Program constants.                                                      *)
(***************************************************************************)
MAX_VIDEOS == 50
SHORTS_MAX_SECONDS == 180
BATCH == 50
MISSING_DURATION == 9999

None == <<"None">>
\* data/videos.json as an earlier run left it (or absent).
NoFile == [last_updated |-> "earlier", channels |-> <<>>]

Min(a, b) == IF a < b THEN a ELSE b

(***************************************************************************)
(* str.strip(), str.startswith()                                           *)
(***************************************************************************)
IsSpace(c) == c \in {" ", "\n", "\t"}

RECURSIVE lstrip(_)
lstrip(s) ==
    IF s # <<>> /\ IsSpace(Head(s)) THEN lstrip(Tail(s)) ELSE s

RECURSIVE rstrip(_)
rstrip(s) ==
    IF s # <<>> /\ IsSpace(s[Len(s)]) THEN rstrip(SubSeq(s, 1, Len(s) - 1)) ELSE s

strip(s) == rstrip(lstrip(s))

startswith(s, prefix) ==
    Len(s) >= Len(prefix) /\ SubSeq(s, 1, Len(prefix)) = prefix

(***************************************************************************)
(* read_identifiers: the list comprehension over the lines of the file.    *)
(***************************************************************************)
KeepLine(line) == strip(line) # <<>> /\ ~startswith(line, <<"#">>)

RECURSIVE read_identifiers(_)
read_identifiers(lines) ==
    IF lines = <<>> THEN <<>>
    ELSE IF KeepLine(Head(lines))
         THEN <<strip(Head(lines))>> \o read_identifiers(Tail(lines))
         ELSE read_identifiers(Tail(lines))

(***************************************************************************)
(* resolve_channel: the lookup parameter chosen for an identifier.         *)
(***************************************************************************)
\* Variant: the canonical-id test looks at the first character only.
LookupParamAnyU(identifier) ==
    IF startswith(identifier, <<"@">>) THEN "forHandle"
    ELSE IF startswith(identifier, <<"U">>) THEN "id"
    ELSE "forUsername"

LookupParam(identifier) ==
    IF startswith(identifier, <<"@">>) THEN "forHandle"
    ELSE IF startswith(identifier, <<"U", "C">>) THEN "id"
    ELSE "forUsername"

\* The ChannelRecord built from the first item of a channels response.
ChannelRecord(identifier) ==
    [id |-> <<"channel of", identifier>>,
     uploads_playlist |-> <<"uploads of", identifier>>]

(***************************************************************************)
(* parse_duration                                                          *)
(***************************************************************************)
Digits == {"0", "1", "2", "3", "4", "5", "6", "7", "8", "9"}

DigitVal(c) ==
    CASE c = "0" -> 0 [] c = "1" -> 1 [] c = "2" -> 2 [] c = "3" -> 3
      [] c = "4" -> 4 [] c = "5" -> 5 [] c = "6" -> 6 [] c = "7" -> 7
      [] c = "8" -> 8 [] c = "9" -> 9

\* int() of a string of decimal digits; int(x or 0) of an unmatched group.
RECURSIVE int(_)
int(ds) ==
    IF ds = None \/ ds = <<>> THEN 0
    ELSE int(SubSeq(ds, 1, Len(ds) - 1)) * 10 + DigitVal(ds[Len(ds)])

\* Length of the longest run of digits of s that starts at position p.
RECURSIVE DigitRun(_, _)
DigitRun(s, p) ==
    IF p <= Len(s) /\ s[p] \in Digits THEN 1 + DigitRun(s, p + 1) ELSE 0

\* The backtracking match of (?:(\d+)H)?(?:(\d+)M)?(?:(\d+)S)? followed by the
\* end of the string, from position p of s: units lists the unit letters still
\* to come.  TryGroup tries the group with k digits, then with fewer (\d+ is
\* greedy), then without the group (the group is optional).
RECURSIVE ReMatch(_, _, _)
RECURSIVE TryGroup(_, _, _, _)
ReMatch(s, p, units) ==
    IF units = <<>>
    THEN [ok |-> p = Len(s) + 1, groups |-> <<>>]
    ELSE TryGroup(s, p, units, DigitRun(s, p))

TryGroup(s, p, units, k) ==
    IF k = 0
    THEN LET r == ReMatch(s, p, Tail(units))
         IN  [ok |-> r.ok, groups |-> <<None>> \o r.groups]
    ELSE IF p + k <= Len(s) /\ s[p + k] = Head(units)
         THEN LET r == ReMatch(s, p + k + 1, Tail(units))
              IN  IF r.ok
                  THEN [ok |-> TRUE,
                        groups |-> <<SubSeq(s, p, p + k - 1)>> \o r.groups]
                  ELSE TryGroup(s, p, units, k - 1)
         ELSE TryGroup(s, p, units, k - 1)

\* re.fullmatch(r'PT(?:(\d+)H)?(?:(\d+)M)?(?:(\d+)S)?', s)
fullmatch(s) ==
    IF startswith(s, <<"P", "T">>)
    THEN ReMatch(s, 3, <<"H", "M", "S">>)
    ELSE [ok |-> FALSE, groups |-> <<>>]

\* Variant: hours weighted like minutes.
parse_duration_hours_as_minutes(token) ==
    LET m == fullmatch(IF token = None \/ token = <<>> THEN <<>> ELSE token)
    IN  IF ~m.ok THEN 0
        ELSE int(m.groups[1]) * 60 + int(m.groups[2]) * 60 + int(m.groups[3])

parse_duration(token) ==
    LET m == fullmatch(IF token = None \/ token = <<>> THEN <<>> ELSE token)
    IN  IF ~m.ok THEN 0
        ELSE int(m.groups[1]) * 3600 + int(m.groups[2]) * 60 + int(m.groups[3])

(***************************************************************************)
(* The environment: what the remote API may answer.                        *)
(***************************************************************************)
PT3M == <<"P", "T", "3", "M">>
PT3M1S == <<"P", "T", "3", "M", "1", "S">>
PT3S == <<"P", "T", "3", "S">>
bogus == <<"b", "o", "g", "u", "s">>

\* Duration tokens a videos response carries: 180 s, 181 s, 3 s, unparseable.
Tokens == {PT3M, PT3M1S, PT3S, bogus}

\* The uploads a playlistItems response lists, as video ids, most recent
\* first; ids are numbered in upload order.
PlaylistResponses == {[k \in 1..n |-> n + 1 - k] : n \in 0..MaxVideos}

Elems(s) == {s[k] : k \in DOMAIN s}

\* The items of a videos response to a request for the ids of batch: a duration
\* token for each id it answers.  For a batch longer than MaxVideos only the
\* responses that answer every id, or every id but the last, with one and the
\* same token are enumerated.
LookupResponses(batch) ==
    IF Len(batch) <= MaxVideos
    THEN UNION {[A -> Tokens] : A \in SUBSET Elems(batch)}
    ELSE {[x \in A |-> t] : A \in {Elems(batch), Elems(batch) \ {batch[Len(batch)]}},
                            t \in Tokens}

(***************************************************************************)
(* get_durations, fetch_videos                                             *)
(***************************************************************************)
\* Variant: a slice one id short, video_ids[i:i + 49].
BatchOneShort(ids, from) == SubSeq(ids, from + 1, Min(from + BATCH - 1, Len(ids)))

\* video_ids[i:i + 50]
Batch(ids, from) == SubSeq(ids, from + 1, Min(from + BATCH, Len(ids)))

\* The loop body's update of durations with the items of one response.
Merge(durs, items) ==
    [x \in DOMAIN durs \cup DOMAIN items |->
        IF x \in DOMAIN items THEN parse_duration(items[x]) ELSE durs[x]]

\* Variant: a missing id counts as 0 seconds, durations.get(v['id'], 0).
GetOrZero(durs, v) == IF v \in DOMAIN durs THEN durs[v] ELSE 0

\* durations.get(v['id'], 9999)
Get(durs, v) == IF v \in DOMAIN durs THEN durs[v] ELSE MISSING_DURATION

\* Variant: the threshold itself is kept, >= SHORTS_MAX_SECONDS.
IsLongFormInclusive(durs, v) == Get(durs, v) >= SHORTS_MAX_SECONDS

IsLongForm(durs, v) == Get(durs, v) > SHORTS_MAX_SECONDS

\* [v for v in videos if durations.get(v['id'], 9999) > SHORTS_MAX_SECONDS]
FilterShorts(vs, durs) == SelectSeq(vs, LAMBDA v : IsLongForm(durs, v))

(***************************************************************************)
(* The steps of the process.                                               *)
(***************************************************************************)
NoLocals ==
    /\ channel' = None
    /\ video_ids' = <<>>
    /\ i' = 0
    /\ durations' = <<>>
    /\ rawDuration' = <<>>
    /\ fullAnswers' = TRUE
    /\ videos' = <<>>

\* Variant: the exception is not caught and ends the process.
Uncaught ==
    /\ outcome' = Append(outcome, "error")
    /\ idx' = idx + 1
    /\ pc' = "exit"
    /\ NoLocals
    /\ UNCHANGED channels_data

\* The except clause of main's loop: the identifier is skipped.
Caught ==
    /\ outcome' = Append(outcome, "error")
    /\ idx' = idx + 1
    /\ pc' = "loop"
    /\ NoLocals
    /\ UNCHANGED channels_data

Request(endpoint, param, arg) ==
    requests' = Append(requests, [endpoint |-> endpoint, param |-> param, arg |-> arg])

\* Variant: the API key is not checked.
ImportUnchecked ==
    /\ pc = "import"
    /\ pc' = "main"
    /\ UNCHANGED <<apiKeySet, fileExists, fileLines, identifiers, idx,
                   channels_data, channel, video_ids, i, durations, videos,
                   outFile, writes, exitCode, requests, outcome, rawDuration,
                   fullAnswers, iso, seconds>>

\* Module level: the API key is read from the environment.
Import ==
    /\ pc = "import"
    /\ IF ~apiKeySet
       THEN pc' = "exit" /\ exitCode' = 1
       ELSE pc' = "main" /\ UNCHANGED exitCode
    /\ UNCHANGED <<apiKeySet, fileExists, fileLines, identifiers, idx,
                   channels_data, channel, video_ids, i, durations, videos,
                   outFile, writes, requests, outcome, rawDuration,
                   fullAnswers, iso, seconds>>

\* Variant: no early return on an empty identifier list.
ReadIdentifiersNoEarlyReturn ==
    /\ pc = "main"
    /\ IF ~fileExists
       THEN /\ pc' = "exit" /\ exitCode' = 1
            /\ UNCHANGED <<identifiers, idx, channels_data>>
       ELSE /\ identifiers' = read_identifiers(fileLines)
            /\ pc' = "loop" /\ idx' = 1 /\ channels_data' = <<>>
            /\ UNCHANGED exitCode
    /\ UNCHANGED <<apiKeySet, fileExists, fileLines, channel, video_ids, i,
                   durations, videos, outFile, writes, requests, outcome,
                   rawDuration, fullAnswers, iso, seconds>>

\* main up to the loop: read_identifiers() and the test for an empty list.
ReadIdentifiers ==
    /\ pc = "main"
    /\ IF ~fileExists
       THEN /\ pc' = "exit" /\ exitCode' = 1
            /\ UNCHANGED <<identifiers, idx, channels_data>>
       ELSE /\ identifiers' = read_identifiers(fileLines)
            /\ IF identifiers' = <<>>
               THEN /\ pc' = "exit" /\ exitCode' = 0
                    /\ UNCHANGED <<idx, channels_data>>
               ELSE /\ pc' = "loop" /\ idx' = 1 /\ channels_data' = <<>>
                    /\ UNCHANGED exitCode
    /\ UNCHANGED <<apiKeySet, fileExists, fileLines, channel, video_ids, i,
                   durations, videos, outFile, writes, requests, outcome,
                   rawDuration, fullAnswers, iso, seconds>>

\* One iteration of main's loop up to the return of resolve_channel.
ResolveChannel ==
    /\ pc = "loop"
    /\ idx <= Len(identifiers)
    /\ LET identifier == identifiers[idx]
       IN  /\ Request("channels", LookupParam(identifier), identifier)
           /\ \E response \in {"exception", "no items", "items"} :
                CASE response = "exception" -> Caught
                  [] response = "no items" ->
                        /\ outcome' = Append(outcome, "not found")
                        /\ idx' = idx + 1
                        /\ pc' = "loop"
                        /\ NoLocals
                        /\ UNCHANGED channels_data
                  [] response = "items" ->
                        /\ channel' = ChannelRecord(identifier)
                        /\ pc' = "fetch"
                        /\ UNCHANGED <<idx, channels_data, video_ids, i,
                                       durations, videos, outcome,
                                       rawDuration, fullAnswers>>
    /\ UNCHANGED <<apiKeySet, fileExists, fileLines, identifiers, outFile,
                   writes, exitCode, iso, seconds>>

\* fetch_videos up to the call of get_durations.
FetchPlaylist ==
    /\ pc = "fetch"
    /\ Request("playlistItems", "playlistId", channel.uploads_playlist)
    /\ \/ Caught
       \/ \E items \in PlaylistResponses :
            /\ Len(items) <= MAX_VIDEOS
            /\ videos' = items
            /\ video_ids' = items
            /\ i' = 0
            /\ durations' = <<>>
            /\ rawDuration' = <<>>
            /\ fullAnswers' = TRUE
            /\ pc' = "durations"
            /\ UNCHANGED <<idx, channels_data, channel, outcome>>
    /\ UNCHANGED <<apiKeySet, fileExists, fileLines, identifiers, outFile,
                   writes, exitCode, iso, seconds>>

\* One iteration of get_durations' loop.
LookupBatch ==
    /\ pc = "durations"
    /\ i < Len(video_ids)
    /\ LET batch == Batch(video_ids, i)
       IN  /\ Request("videos", "id", batch)
           /\ \/ Caught
              \/ \E items \in LookupResponses(batch) :
                   /\ durations' = Merge(durations, items)
                   /\ rawDuration' = [x \in DOMAIN rawDuration \cup DOMAIN items |->
                                        IF x \in DOMAIN items THEN items[x]
                                        ELSE rawDuration[x]]
                   /\ fullAnswers' = (fullAnswers /\ DOMAIN items = Elems(batch))
                   /\ i' = i + BATCH
                   /\ UNCHANGED <<pc, idx, channels_data, channel, video_ids,
                                  videos, outcome>>
    /\ UNCHANGED <<apiKeySet, fileExists, fileLines, identifiers, outFile,
                   writes, exitCode, iso, seconds>>

\* get_durations returns; fetch_videos filters out the Shorts and returns.
FetchVideosReturn ==
    /\ pc = "durations"
    /\ i >= Len(video_ids)
    /\ videos' = FilterShorts(videos, durations)
    /\ outcome' = Append(outcome, "ok")
    /\ pc' = "fetched"
    /\ UNCHANGED <<apiKeySet, fileExists, fileLines, identifiers, idx,
                   channels_data, channel, video_ids, i, durations, outFile,
                   writes, exitCode, requests, rawDuration, fullAnswers, iso,
                   seconds>>

\* Variant: the ChannelResult is inserted at the front of channels_data.
InsertChannelFirst ==
    /\ pc = "fetched"
    /\ channels_data' = <<[id |-> channel.id, videos |-> videos]>> \o channels_data
    /\ idx' = idx + 1
    /\ pc' = "loop"
    /\ NoLocals
    /\ UNCHANGED <<apiKeySet, fileExists, fileLines, identifiers, outFile,
                   writes, exitCode, requests, outcome, iso, seconds>>

\* main appends the ChannelResult and goes on to the next identifier.
AppendChannel ==
    /\ pc = "fetched"
    /\ channels_data' = Append(channels_data, [id |-> channel.id, videos |-> videos])
    /\ idx' = idx + 1
    /\ pc' = "loop"
    /\ NoLocals
    /\ UNCHANGED <<apiKeySet, fileExists, fileLines, identifiers, outFile,
                   writes, exitCode, requests, outcome, iso, seconds>>

\* After the loop: the snapshot is written and main returns.
WriteSnapshot ==
    /\ pc = "loop"
    /\ idx > Len(identifiers)
    /\ outFile' = [last_updated |-> "now", channels |-> channels_data]
    /\ writes' = writes + 1
    /\ pc' = "exit"
    /\ exitCode' = 0
    /\ UNCHANGED <<apiKeySet, fileExists, fileLines, identifiers, idx,
                   channels_data, channel, video_ids, i, durations, videos,
                   requests, outcome, rawDuration, fullAnswers, iso, seconds>>

(***************************************************************************)
(* The whole run, from the start of the interpreter.                       *)
(***************************************************************************)
RECURSIVE SeqsUpTo(_, _)
SeqsUpTo(S, n) ==
    IF n = 0 THEN {<<>>}
    ELSE LET shorter == SeqsUpTo(S, n - 1)
         IN  shorter \cup {Append(s, x) : s \in shorter, x \in S}

\* Lines of channels.txt: a blank line, a comment, a handle, a canonical id.
ChannelLines == {<<"\n">>, <<"#", "\n">>, <<"@", "a", "\n">>, <<"U", "C", "\n">>}

InitLocals ==
    /\ identifiers = <<>>
    /\ idx = 0
    /\ channels_data = <<>>
    /\ channel = None
    /\ video_ids = <<>>
    /\ i = 0
    /\ durations = <<>>
    /\ rawDuration = <<>>
    /\ fullAnswers = TRUE
    /\ videos = <<>>
    /\ outcome = <<>>
    /\ iso = None
    /\ seconds = 0

InitProcess ==
    /\ outFile = NoFile
    /\ writes = 0
    /\ exitCode = -1
    /\ requests = <<>>

Init ==
    /\ pc = "import"
    /\ apiKeySet \in BOOLEAN
    /\ fileExists \in BOOLEAN
    /\ fileLines \in (IF fileExists THEN SeqsUpTo(ChannelLines, MaxLines) ELSE {<<>>})
    /\ InitLocals
    /\ InitProcess

Next ==
    \/ Import
    \/ ReadIdentifiers
    \/ ResolveChannel
    \/ FetchPlaylist
    \/ LookupBatch
    \/ FetchVideosReturn
    \/ AppendChannel
    \/ WriteSnapshot

Spec == Init /\ [][Next]_vars

(***************************************************************************)
(* read_identifiers on its own, over every file of at most MaxLines lines  *)
(* of at most MaxLineLen characters among space, '#' and a letter.         *)
(***************************************************************************)
AnyLines == {Append(l, "\n") : l \in SeqsUpTo({" ", "#", "a"}, MaxLineLen)}

InitRead ==
    /\ pc = "main"
    /\ apiKeySet = TRUE
    /\ fileExists \in BOOLEAN
    /\ fileLines \in (IF fileExists THEN SeqsUpTo(AnyLines, MaxLines) ELSE {<<>>})
    /\ InitLocals
    /\ InitProcess

NextRead == ReadIdentifiers

SpecRead == InitRead /\ [][NextRead]_vars

(***************************************************************************)
(* resolve_channel on its own, over every identifier of at most            *)
(* MaxIdentLen characters among '@', 'U', 'C' and a letter.                *)
(***************************************************************************)
AnyIdentifiers == SeqsUpTo({"@", "U", "C", "a"}, MaxIdentLen) \ {<<>>}

InitResolve ==
    /\ pc = "loop"
    /\ apiKeySet = TRUE
    /\ fileExists = TRUE
    /\ \E identifier \in AnyIdentifiers :
         /\ fileLines = <<Append(identifier, "\n")>>
         /\ identifiers = <<identifier>>
    /\ idx = 1
    /\ channels_data = <<>>
    /\ channel = None
    /\ video_ids = <<>>
    /\ i = 0
    /\ durations = <<>>
    /\ rawDuration = <<>>
    /\ fullAnswers = TRUE
    /\ videos = <<>>
    /\ outcome = <<>>
    /\ iso = None
    /\ seconds = 0
    /\ InitProcess

NextResolve == ResolveChannel

SpecResolve == InitResolve /\ [][NextResolve]_vars

(***************************************************************************)
(* get_durations on its own, over the lists of up to MaxIds video ids.     *)
(***************************************************************************)
InitBatch ==
    /\ pc = "durations"
    /\ apiKeySet = TRUE
    /\ fileExists = TRUE
    /\ fileLines = <<>>
    /\ identifiers = <<>>
    /\ idx = 0
    /\ channels_data = <<>>
    /\ channel = None
    /\ \E n \in 0..MaxIds : video_ids = [k \in 1..n |-> k]
    /\ i = 0
    /\ durations = <<>>
    /\ rawDuration = <<>>
    /\ fullAnswers = TRUE
    /\ videos = <<>>
    /\ outcome = <<>>
    /\ iso = None
    /\ seconds = 0
    /\ InitProcess

NextBatch == LookupBatch

SpecBatch == InitBatch /\ [][NextBatch]_vars

(***************************************************************************)
(* parse_duration on its own.                                              *)
(***************************************************************************)
\* A field of a duration token: absent, or up to MaxDigits digits and a unit.
Fields(unit) ==
    {<<>>} \cup {Append(ds, unit) : ds \in SeqsUpTo({"1", "4"}, MaxDigits) \ {<<>>}}

WellFormedTokens ==
    {<<"P", "T">> \o h \o m \o sec : h \in Fields("H"), m \in Fields("M"), sec \in Fields("S")}

ExampleTokens ==
    {<<"P", "T", "4", "M", "1", "3", "S">>, <<"P", "T", "1", "H">>, <<"P", "T">>,
     <<"P", "T", "4", "5", "S">>, bogus, PT3M, PT3M1S, PT3S,
     <<"P", "T", "1", "M", "1", "H">>, <<"P", "T", "1", "H", "1", "M", "1">>,
     <<"P", "T", "1", "H", "1", "H">>, <<"P", "1", "H", "1", "M", "1", "S">>,
     <<"P", "T", "1", "H", "1", "M", "1", "S", "\n">>,
     <<"p", "t", "1", "H", "1", "M", "1", "S">>, <<"P", "T", "0", "S">>,
     <<"P", "T", "0", "1", "M", "0", "5", "S">>, <<"P", "T", "1", "0", "M">>,
     <<"P", "T", "-", "1", "S">>, None, <<>>}

ParseInputs ==
    SeqsUpTo({"P", "T", "H", "M", "S", "1", "4"}, MaxTokenLen)
        \cup WellFormedTokens \cup ExampleTokens

ParseDuration ==
    /\ pc = "parse"
    /\ seconds' = parse_duration(iso)
    /\ pc' = "parsed"
    /\ UNCHANGED <<apiKeySet, fileExists, fileLines, identifiers, idx,
                   channels_data, channel, video_ids, i, durations, videos,
                   outFile, writes, exitCode, requests, outcome, rawDuration,
                   fullAnswers, iso>>

InitParse ==
    /\ pc = "parse"
    /\ apiKeySet = TRUE
    /\ fileExists = TRUE
    /\ fileLines = <<>>
    /\ identifiers = <<>>
    /\ idx = 0
    /\ channels_data = <<>>
    /\ channel = None
    /\ video_ids = <<>>
    /\ i = 0
    /\ durations = <<>>
    /\ rawDuration = <<>>
    /\ fullAnswers = TRUE
    /\ videos = <<>>
    /\ outcome = <<>>
    /\ iso \in ParseInputs
    /\ seconds = 0
    /\ InitProcess

NextParse == ParseDuration

SpecParse == InitParse /\ [][NextParse]_vars

(***************************************************************************)
(* Properties of the whole run (Spec).                                     *)
(***************************************************************************)
Ended == pc = "exit"

\* The identifiers whose processing has ended, by position.
Processed == 1..Len(outcome)

\* C1: with a non-empty identifier list, whatever each identifier's outcome
\* (resolved, not found, an exception in resolve_channel, fetch_videos or
\* get_durations), the identifiers are processed one after the other, no step
\* but the final write ends the process, the process can always take its next
\* step until then, and it ends with exit code 0 after having written the
\* snapshot exactly once, every identifier having been processed.
C1_RunSurvivesEveryFailure ==
    /\ pc \in {"loop", "fetch", "durations"} => Len(outcome) = idx - 1
    /\ pc = "fetched" => Len(outcome) = idx
    /\ pc \in {"loop", "fetch", "durations", "fetched"} =>
          /\ identifiers # <<>>
          /\ idx <= Len(identifiers) + 1
          /\ writes = 0
          /\ ENABLED Next
    /\ (Ended /\ identifiers # <<>>) =>
          /\ exitCode = 0
          /\ writes = 1
          /\ outFile # NoFile
          /\ Len(outcome) = Len(identifiers)

\* Every identifier of a list of two failed, the second one with an exception.
C1_Witness ==
    /\ Ended
    /\ Len(identifiers) = 2
    /\ outcome \in {<<"error", "error">>, <<"not found", "error">>}
    /\ exitCode = 0
    /\ writes = 1

\* The channel ids of a sequence of ChannelResults.
ChannelIds(results) == [k \in DOMAIN results |-> results[k].id]

\* The positions of the processed identifiers that resolved to a channel and
\* whose fetch_videos returned, in configuration order.
SucceededPositions ==
    SelectSeq([k \in 1..Len(identifiers) |-> k],
              LAMBDA k : k \in Processed /\ outcome[k] = "ok")

ExpectedChannelIds ==
    [j \in 1..Len(SucceededPositions) |->
        <<"channel of", identifiers[SucceededPositions[j]]>>]

\* C2: between two identifiers channels_data holds, and the written snapshot's
\* channels are, exactly one ChannelResult per identifier that resolved and
\* whose uploads were fetched and classified without error, in configuration
\* order; an identifier not found or failed at any stage has no entry.
C2_ChannelsAreTheSucceededInOrder ==
    /\ pc = "loop" => ChannelIds(channels_data) = ExpectedChannelIds
    /\ writes > 0 => ChannelIds(outFile.channels) = ExpectedChannelIds

\* Two distinct identifiers both succeeded and the snapshot is written.
C2_Witness ==
    /\ writes = 1
    /\ Len(identifiers) = 2
    /\ identifiers[1] # identifiers[2]
    /\ outcome = <<"ok", "ok">>
    /\ Len(outFile.channels) = 2

\* C7: when the API key is absent or channels.txt is missing, the process
\* ends with a non-zero exit code, and at no point has it sent a request or
\* opened the output file.
C7_StartupErrorIsFatalBeforeAnyWork ==
    (~apiKeySet \/ ~fileExists) =>
        /\ requests = <<>>
        /\ writes = 0
        /\ outFile = NoFile
        /\ pc \in {"import", "main", "exit"}
        /\ Ended => exitCode # 0 /\ exitCode = 1

\* The key is set, channels.txt is missing, the process has ended.
C7_Witness == Ended /\ apiKeySet /\ ~fileExists /\ exitCode = 1

OnlyBlankAndCommentLines ==
    \A k \in DOMAIN fileLines :
        LET line == fileLines[k]
        IN  (\A c \in Elems(line) : IsSpace(c)) \/ line[1] = "#"

\* C8: when channels.txt exists and holds only blank and comment lines (or
\* none), or otherwise yields no identifier, main ends with exit code 0 right
\* after reading it, having sent no request and left the output file as it
\* was.
C8_NothingConfiguredWritesNothing ==
    (/\ apiKeySet /\ fileExists /\ pc \notin {"import", "main"}
     /\ OnlyBlankAndCommentLines \/ identifiers = <<>>) =>
        /\ Ended
        /\ exitCode = 0
        /\ identifiers = <<>>
        /\ requests = <<>>
        /\ writes = 0
        /\ outFile = NoFile

\* A file of a blank line and a comment line has been read.
C8_Witness ==
    /\ Ended
    /\ apiKeySet
    /\ fileExists
    /\ Len(fileLines) = 2
    /\ fileLines[1] # fileLines[2]
    /\ OnlyBlankAndCommentLines
    /\ exitCode = 0

(***************************************************************************)
(* Properties of fetch_videos, at its return (Spec).                       *)
(***************************************************************************)
Returned == pc = "fetched"

Fetched == Elems(video_ids)
Kept == Elems(videos)

\* s is t with some elements left out (the elements of t are distinct).
IsOrderedSelectionOf(s, t) == s = SelectSeq(t, LAMBDA x : x \in Elems(s))

\* C3: fetch_videos returns fetched uploads in the order they were fetched, and
\* a fetched video whose looked-up duration is d is returned iff d > 180: one
\* answered PT3M (180 s) or PT3S (3 s) is left out, one answered PT3M1S (181 s)
\* is returned.
C3_KeptIffLongerThanThreshold ==
    Returned =>
        /\ IsOrderedSelectionOf(videos, video_ids)
        /\ \A v \in Fetched \cap DOMAIN durations :
              /\ v \in Kept <=> durations[v] > 180
              /\ rawDuration[v] \in {PT3M, PT3S} => v \notin Kept
              /\ rawDuration[v] = PT3M1S => v \in Kept

\* Of two uploads the more recent lasts 180 s and the older 181 s.
C3_Witness ==
    /\ Returned
    /\ video_ids = <<2, 1>>
    /\ DOMAIN rawDuration = {1, 2}
    /\ rawDuration[2] = PT3M
    /\ rawDuration[1] = PT3M1S
    /\ videos = <<1>>

\* C10: at the return of fetch_videos a fetched video the lookup did not
\* answer for is returned, and one for which it answered an unparseable token
\* has duration 0 and is left out.
C10_MissKeptUnparseableDropped ==
    Returned =>
        \A v \in Fetched :
            /\ v \notin DOMAIN rawDuration => v \in Kept
            /\ (v \in DOMAIN rawDuration /\ rawDuration[v] = bogus) =>
                  durations[v] = 0 /\ v \notin Kept

\* Of two uploads one got no answer and the other an unparseable token.
C10_Witness ==
    /\ Returned
    /\ video_ids = <<2, 1>>
    /\ DOMAIN rawDuration = {1}
    /\ rawDuration[1] = bogus
    /\ videos = <<2>>

(***************************************************************************)
(* Properties of get_durations, at the end of its loop (SpecBatch).        *)
(***************************************************************************)
LoopDone == pc = "durations" /\ i >= Len(video_ids)

RECURSIVE Concat(_)
Concat(ss) == IF ss = <<>> THEN <<>> ELSE Head(ss) \o Concat(Tail(ss))

RequestedBatches == [k \in DOMAIN requests |-> requests[k].arg]

CeilDiv(n, d) == (n + d - 1) \div d

\* C4: when get_durations has gone through a list of n ids it has sent
\* ceil(n/50) lookups, each for 1 to 50 ids, all but the last for 50, whose
\* batches put end to end are the list (120 ids: 50, 50, 20; no id: no
\* lookup); and if every lookup answered each id asked, every id is a key of
\* the merged mapping.
C4_BatchesPartitionTheIds ==
    LoopDone =>
        /\ Len(requests) = CeilDiv(Len(video_ids), 50)
        /\ \A k \in DOMAIN requests :
              /\ requests[k].endpoint = "videos"
              /\ Len(requests[k].arg) \in 1..50
              /\ k < Len(requests) => Len(requests[k].arg) = 50
        /\ Concat(RequestedBatches) = video_ids
        /\ Len(video_ids) = 120 =>
              [k \in DOMAIN requests |-> Len(requests[k].arg)] = <<50, 50, 20>>
        /\ Len(video_ids) = 0 => requests = <<>>
        /\ fullAnswers => DOMAIN durations = Elems(video_ids)

\* 120 ids went through in three lookups that answered every id.
C4_Witness ==
    /\ LoopDone
    /\ Len(video_ids) = 120
    /\ Len(requests) = 3
    /\ fullAnswers
    /\ Cardinality(DOMAIN durations) = 120

(***************************************************************************)
(* Properties of resolve_channel, at its return (SpecResolve).             *)
(***************************************************************************)
Resolved == requests # <<>>

\* The lookup the claim names for an identifier.
StrategyByShape(identifier) ==
    CASE identifier[1] = "@" -> "forHandle"
      [] identifier[1] # "@" /\ Len(identifier) >= 2
            /\ identifier[1] = "U" /\ identifier[2] = "C" -> "id"
      [] OTHER -> "forUsername"

\* C5: resolve_channel sends exactly one request, a channels lookup of the
\* identifier by handle if the identifier starts with '@', else by canonical
\* id if it starts with 'UC', else by legacy username; and a response without
\* items makes it return None, which main skips without an exception.
C5_LookupByIdentifierShape ==
    Resolved =>
        /\ Len(requests) = 1
        /\ requests[1] = [endpoint |-> "channels",
                          param |-> StrategyByShape(identifiers[1]),
                          arg |-> identifiers[1]]
        /\ (identifiers[1] = <<"@", "U", "C">>) => requests[1].param = "forHandle"
        /\ (identifiers[1] = <<"U", "a", "C">>) => requests[1].param = "forUsername"
        /\ (identifiers[1] = <<"a", "U", "C">>) => requests[1].param = "forUsername"
        /\ outcome = <<"not found">> => channel = None /\ pc = "loop" /\ idx = 2
        /\ outcome \in {<<>>, <<"not found">>, <<"error">>}

\* An identifier that starts with 'U' but not with 'UC' was looked up.
C5_Witness ==
    /\ Resolved
    /\ identifiers[1] = <<"U", "a">>
    /\ requests[1].param = "forUsername"
    /\ outcome = <<"not found">>

(***************************************************************************)
(* Properties of parse_duration, at its return (SpecParse).                *)
(***************************************************************************)
Parsed == pc = "parsed"

\* A field of a token: nothing, or one or more digits followed by unit.
IsField(f, unit) ==
    \/ f = <<>>
    \/ /\ Len(f) >= 2
       /\ f[Len(f)] = unit
       /\ \A k \in 1..(Len(f) - 1) : f[k] \in Digits

\* The number a string of digits denotes, most significant digit first.
RECURSIVE Decimal(_, _)
Decimal(ds, acc) ==
    IF ds = <<>> THEN acc ELSE Decimal(Tail(ds), 10 * acc + DigitVal(Head(ds)))

FieldValue(f) == IF f = <<>> THEN 0 ELSE Decimal(SubSeq(f, 1, Len(f) - 1), 0)

\* The ways to cut s into 'PT', an H field, an M field and an S field.
Cuts(s) ==
    IF s = None \/ Len(s) < 2 \/ SubSeq(s, 1, 2) # <<"P", "T">> THEN {}
    ELSE {c \in (2..Len(s)) \X (2..Len(s)) :
            /\ c[1] <= c[2]
            /\ IsField(SubSeq(s, 3, c[1]), "H")
            /\ IsField(SubSeq(s, c[1] + 1, c[2]), "M")
            /\ IsField(SubSeq(s, c[2] + 1, Len(s)), "S")}

CutValue(s, c) ==
    FieldValue(SubSeq(s, 3, c[1])) * 3600
        + FieldValue(SubSeq(s, c[1] + 1, c[2])) * 60
        + FieldValue(SubSeq(s, c[2] + 1, Len(s)))

HasRead == fileExists /\ pc # "main"

StrippedLines == [k \in DOMAIN fileLines |-> strip(fileLines[k])]

\* C9: read_identifiers returns, in file order, the lines with surrounding
\* whitespace removed that are then neither empty nor a comment (beginning
\* with '#'): no returned identifier is empty or begins with '#'.
C9_IdentifiersAreTrimmedNonComments ==
    HasRead =>
        /\ identifiers = SelectSeq(StrippedLines, LAMBDA l : l # <<>> /\ l[1] # "#")
        /\ \A k \in DOMAIN identifiers :
              identifiers[k] # <<>> /\ identifiers[k][1] # "#"

====
